---- MODULE Spec2Model ----
(***************************************************************************)
(* Model of src/phenoai/logger.py: a process-wide logging facade with one  *)
(* optional stream channel and one optional file channel, a global indent  *)
(* level, a global colour mode and a global mute threshold.                *)
(*                                                                         *)
(* Text is modelled as a sequence of tokens: a token is one visible        *)
(* character or one ANSI escape sequence (written "ESC[..m").              *)
(* Handlers are objects on a small heap; the registry slots and the        *)
(* logger's handler list hold references (ids) to them.                    *)
(***************************************************************************)
EXTENDS Integers, Sequences, FiniteSets, TLC

VARIABLES streamchannel, filechannel, colouredstream, indentlevel,
          handlers, heap, loggerLevel, disable, call, wrote

vars == <<streamchannel, filechannel, colouredstream, indentlevel,
          handlers, heap, loggerLevel, disable, call, wrote>>

----------------------------------------------------------------------------
(* Bounds of the model *)

MaxIndent == 1
MaxHandlers == 3

MinIndent == 0 - MaxIndent

----------------------------------------------------------------------------
(* Severities of the logging package *)

NOTSET == 0
DEBUG == 10
INFO == 20
WARNING == 30
ERROR == 40
CRITICAL == 50

Severities == {DEBUG, INFO, WARNING, ERROR, CRITICAL}

(* logging.getLevelName for the five severities *)
LevelName(levelno) ==
    CASE levelno = DEBUG    -> <<"D", "E", "B", "U", "G">>
      [] levelno = INFO     -> <<"I", "N", "F", "O">>
      [] levelno = WARNING  -> <<"W", "A", "R", "N", "I", "N", "G">>
      [] levelno = ERROR    -> <<"E", "R", "R", "O", "R">>
      [] levelno = CRITICAL -> <<"C", "R", "I", "T", "I", "C", "A", "L">>

----------------------------------------------------------------------------
(* Module globals *)

None == 0
streamchannel_defaultlvl == INFO
filechannel_defaultlvl == INFO
indentunit == <<" ", " ">>

----------------------------------------------------------------------------
(* Inputs *)

Ids == 1..MaxHandlers

NoLvl == [none |-> TRUE, v |-> NOTSET]
Lvl(l) == [none |-> FALSE, v |-> l]
LvlArgs == {NoLvl, Lvl(DEBUG), Lvl(ERROR)}
MuteArgs == {WARNING, CRITICAL}

GoodPaths == {"a.log", "b.log"}
BadPaths == {"/nodir/c.log"}
Paths == GoodPaths \cup BadPaths
NoPath == "-"

Messages == {<<"h", "i">>}
NoMsg == <<>>

IntDir(n) == [t |-> "int", i |-> n, s |-> ""]
StrDir(x) == [t |-> "str", i |-> 0, s |-> x]
NoneDir == [t |-> "none", i |-> 0, s |-> ""]
OtherDir == [t |-> "other", i |-> 0, s |-> ""]
Directives == {IntDir(n) : n \in MinIndent..MaxIndent}
                \cup {StrDir("+"), StrDir("-"), StrDir("++"), NoneDir, OtherDir}

----------------------------------------------------------------------------
(* Text helpers *)

RECURSIVE Repeat(_, _)
(* Python's  s * n : the empty string when n <= 0 *)
Repeat(s, n) == IF n <= 0 THEN <<>> ELSE s \o Repeat(s, n - 1)

(* variant: "{:<8}", the name at the left of the field *)
Left8(name) ==
    name \o Repeat(<<" ">>, IF Len(name) >= 8 THEN 0 ELSE 8 - Len(name))

(* "{:^8}".format(name): left padding is half of the total, rounded down *)
Centre8(name) ==
    LET total == IF Len(name) >= 8 THEN 0 ELSE 8 - Len(name)
        left == total \div 2
        right == total - left
    IN Repeat(<<" ">>, left) \o name \o Repeat(<<" ">>, right)

IsEscape(tok) == tok \in {"ESC[0m", "ESC[1m", "ESC[91m", "ESC[93m", "ESC[94m"}

RECURSIVE StripEscapes(_)
StripEscapes(text) ==
    IF text = <<>> THEN <<>>
    ELSE IF IsEscape(Head(text)) THEN StripEscapes(Tail(text))
         ELSE <<Head(text)>> \o StripEscapes(Tail(text))

Max(a, b) == IF a >= b THEN a ELSE b

----------------------------------------------------------------------------
(* Log records and the two filters *)

Unset == <<"<unset>">>

(* the LogRecord the logger makes for one emit call *)
MakeRecord(sev, message) ==
    [msg |-> message, levelno |-> sev,
     levellabel |-> Unset, filteredmessage |-> Unset]

(* ColourFilter.filter: sets levellabel and filteredmessage from the record *)
ColourFilter(record) ==
    IF colouredstream
    THEN CASE record.levelno = DEBUG ->
                [record EXCEPT
                   !.levellabel = <<" ", "ESC[94m", "D", "E", "B", "U", "G",
                                    "ESC[0m", " ", " ">>,
                   !.filteredmessage = record.msg]
           [] record.levelno = INFO ->
                [record EXCEPT
                   !.levellabel = <<" ", " ", "I", "N", "F", "O", " ", " ">>,
                   !.filteredmessage = record.msg]
           [] record.levelno = WARNING ->
                [record EXCEPT
                   !.levellabel = <<"ESC[93m", "W", "A", "R", "N", "I", "N", "G",
                                    "ESC[0m", " ">>,
                   !.filteredmessage = record.msg]
           [] record.levelno = ERROR ->
                [record EXCEPT
                   !.levellabel = <<" ", "ESC[91m", "E", "R", "R", "O", "R",
                                    "ESC[0m", " ", " ">>,
                   !.filteredmessage = record.msg]
           [] record.levelno = CRITICAL ->
                [record EXCEPT
                   !.levellabel = <<"ESC[1m", "ESC[91m", "C", "R", "I", "T", "I",
                                    "C", "A", "L", "ESC[0m", "ESC[0m">>,
                   !.filteredmessage = <<"ESC[91m">> \o record.msg
                                         \o <<"ESC[0m">>]
           [] OTHER -> record
    ELSE [record EXCEPT
            !.levellabel = Centre8(LevelName(record.levelno)),
            !.filteredmessage = record.msg]

(* IndentFilter.filter: rewrites record.msg in place; n is the value of the
   global indent level at the time the filter runs *)
IndentFilter(record, n) ==
    [record EXCEPT !.msg = Repeat(indentunit, n) \o record.msg]

----------------------------------------------------------------------------
(* Handler objects *)

FreeObj == [kind |-> "free", level |-> NOTSET, path |-> NoPath,
            filters |-> <<>>]

(* logging.StreamHandler() with IndentFilter, then ColourFilter, added *)
NewStreamHandler ==
    [kind |-> "stream", level |-> NOTSET, path |-> NoPath,
     filters |-> <<"Indent", "Colour">>]

(* logging.FileHandler(logpath) with IndentFilter added *)
NewFileHandler(logpath) ==
    [kind |-> "file", level |-> NOTSET, path |-> logpath,
     filters |-> <<"Indent">>]

(* variant: the file is opened lazily, on the first write, so making the
   handler never fails *)
OpenFailsNever(logpath) == FALSE

(* opening the log file fails for a path that cannot be created *)
OpenFails(logpath) == logpath \in BadPaths

Range(seq) == {seq[i] : i \in 1..Len(seq)}

HasFree == \E i \in Ids : heap[i].kind = "free"
FreshId == CHOOSE i \in Ids :
              /\ heap[i].kind = "free"
              /\ \A j \in Ids : heap[j].kind = "free" => i <= j

(* Logger.addHandler / Logger.removeHandler *)
AddHandler(hs, h) == IF h \in Range(hs) THEN hs ELSE Append(hs, h)
(* variant: the handler stays on the logger *)
RemoveHandlerKeep(hs, h) == hs

RemoveHandler(hs, h) == SelectSeq(hs, LAMBDA x : x # h)

(* an object no slot and no logger refers to any more is dropped; a file
   handler that is dropped gives up its open file with it (the module never
   calls close() on a handler) *)
Collect(hp, hs, slots) ==
    [i \in Ids |-> IF i \in Range(hs) \cup slots THEN hp[i] ELSE FreeObj]

----------------------------------------------------------------------------
(* Dispatch of one record: Logger.isEnabledFor, Logger.callHandlers,
   Handler.handle (filters, then format and write) *)

RECURSIVE RunFilters(_, _, _)
RunFilters(fs, record, n) ==
    IF fs = <<>> THEN record
    ELSE RunFilters(Tail(fs),
                    IF Head(fs) = "Indent" THEN IndentFilter(record, n)
                    ELSE ColourFilter(record),
                    n)

(* variant: the file formatter is given the format string of the stream
   formatter *)
FormatLineAsStream(h, record) ==
    [h |-> h, kind |-> heap[h].kind,
     path |-> IF heap[h].kind = "stream" THEN NoPath ELSE heap[h].path,
     label |-> record.levellabel, text |-> record.filteredmessage]

(* the line a handler writes: the stream formatter prints levellabel and
   filteredmessage, the file formatter prints levelname centred in 8 and
   the message *)
FormatLine(h, record) ==
    IF heap[h].kind = "stream"
    THEN [h |-> h, kind |-> "stream", path |-> NoPath,
          label |-> record.levellabel, text |-> record.filteredmessage]
    ELSE [h |-> h, kind |-> "file", path |-> heap[h].path,
          label |-> Centre8(LevelName(record.levelno)), text |-> record.msg]

(* a handler takes a record whose level is at or above its own *)
Admits(h, sev) == sev >= heap[h].level

RECURSIVE CallHandlers(_, _, _, _)
CallHandlers(hs, record, n, out) ==
    IF hs = <<>> THEN out
    ELSE IF Admits(Head(hs), record.levelno)
         THEN LET r2 == RunFilters(heap[Head(hs)].filters, record, n)
              IN CallHandlers(Tail(hs), r2, n,
                              Append(out, FormatLine(Head(hs), r2)))
         ELSE CallHandlers(Tail(hs), record, n, out)

(* logging.disable(lvl) switches off every record at lvl and below *)
Disabled(sev) == disable >= sev

(* with no handler on the logger, records at WARNING and above go to the
   logging package's last-resort handler, unformatted *)
LastResort(sev, message) ==
    IF sev >= WARNING
    THEN <<[h |-> None, kind |-> "lastResort", path |-> NoPath,
            label |-> <<>>, text |-> message]>>
    ELSE <<>>

LoggerLog(sev, message, n) ==
    IF Disabled(sev) \/ sev < loggerLevel THEN <<>>
    ELSE IF handlers = <<>> THEN LastResort(sev, message)
    ELSE CallHandlers(handlers, MakeRecord(sev, message), n, <<>>)

----------------------------------------------------------------------------
(* The call that was made last and the lines it wrote.  present tells
   whether the channel an enable or remove call is about existed when the
   call was made, and for unmute whether a mute was in effect. *)

Call(op) == [op |-> op, sev |-> NOTSET, msg |-> NoMsg, indent |-> NoneDir,
             lvl |-> NoLvl, colour |-> FALSE, path |-> NoPath,
             present |-> FALSE, raised |-> FALSE]

EmitOps == {"debug", "info", "warning", "error", "critical"}

(* the facade function that emits at a severity *)
EmitOp(sev) ==
    CASE sev = DEBUG    -> "debug"
      [] sev = INFO     -> "info"
      [] sev = WARNING  -> "warning"
      [] sev = ERROR    -> "error"
      [] sev = CRITICAL -> "critical"

----------------------------------------------------------------------------
(* to_stream *)

(* variant: a new handler is made on every call *)
ToStreamAddAlways == TRUE

ToStreamAdd == streamchannel = None

(* variant: without a level an existing channel keeps the level it has *)
ToStreamLevelKeep(lvl) ==
    IF lvl.none
    THEN IF streamchannel = None THEN streamchannel_defaultlvl
         ELSE heap[streamchannel].level
    ELSE lvl.v

ToStreamLevel(lvl) == IF lvl.none THEN streamchannel_defaultlvl ELSE lvl.v

(* variant: the logger itself is set to WARNING *)
ToStreamLoggerLevelWarning == WARNING

ToStreamLoggerLevel == DEBUG

(* variant: the colour mode is set only when the channel is made *)
ToStreamColourOnAdd(colour) ==
    IF streamchannel = None THEN colour ELSE colouredstream

(* the colour mode to_stream leaves behind *)
ToStreamColour(colour) == colour

ToStream(lvl, colour) ==
    LET add == ToStreamAdd
        h == IF add THEN FreshId ELSE streamchannel
        obj == IF add THEN NewStreamHandler ELSE heap[h]
    IN /\ add => HasFree
       /\ loggerLevel' = ToStreamLoggerLevel
       /\ streamchannel' = h
       /\ heap' = [heap EXCEPT ![h] = [obj EXCEPT !.level = ToStreamLevel(lvl)]]
       /\ handlers' = IF add THEN AddHandler(handlers, h) ELSE handlers
       /\ colouredstream' = ToStreamColour(colour)
       /\ call' = [Call("to_stream") EXCEPT !.lvl = lvl, !.colour = colour,
                    !.present = ~add]
       /\ wrote' = <<>>
       /\ UNCHANGED <<filechannel, indentlevel, disable>>

----------------------------------------------------------------------------
(* to_file *)

(* variant: a new handler is made, and its file opened, on every call *)
ToFileAddAlways == TRUE

ToFileAdd == filechannel = None

ToFileLevel(lvl) == IF lvl.none THEN filechannel_defaultlvl ELSE lvl.v

(* variant: an existing handler is pointed at the path of the call *)
ToFileObjectRepoint(add, h, logpath) ==
    IF add THEN NewFileHandler(logpath)
    ELSE [heap[h] EXCEPT !.path = logpath]

(* the handler object the call works on: a new one for logpath when the slot
   is empty, else the one in the slot, whose path is not looked at *)
ToFileObject(add, h, logpath) ==
    IF add THEN NewFileHandler(logpath) ELSE heap[h]

ToFile(logpath, lvl) ==
    LET add == ToFileAdd
        h == IF add THEN FreshId ELSE filechannel
        obj == ToFileObject(add, h, logpath)
    IN /\ add => HasFree
       /\ IF add /\ OpenFails(logpath)
          THEN /\ call' = [Call("to_file") EXCEPT !.lvl = lvl,
                             !.path = logpath, !.present = ~add,
                             !.raised = TRUE]
               /\ wrote' = <<>>
               /\ UNCHANGED <<streamchannel, filechannel, colouredstream,
                              indentlevel, handlers, heap, loggerLevel,
                              disable>>
          ELSE /\ filechannel' = h
               /\ heap' = [heap EXCEPT
                             ![h] = [obj EXCEPT !.level = ToFileLevel(lvl)]]
               /\ handlers' = IF add THEN AddHandler(handlers, h)
                              ELSE handlers
               /\ call' = [Call("to_file") EXCEPT !.lvl = lvl,
                             !.path = logpath, !.present = ~add]
               /\ wrote' = <<>>
               /\ UNCHANGED <<streamchannel, colouredstream, indentlevel,
                              loggerLevel, disable>>

----------------------------------------------------------------------------
(* remove_file_channel, remove_stream_channel *)

(* variant: the slot is never found occupied *)
RemoveFileGuardNever == FALSE

RemoveFileGuard == filechannel # None

(* variant: the logger's handler list is emptied *)
RemoveFileChannelClearsAll ==
    /\ IF RemoveFileGuard
       THEN /\ handlers' = <<>>
            /\ filechannel' = None
            /\ heap' = Collect(heap, handlers', {streamchannel})
       ELSE UNCHANGED <<handlers, filechannel, heap>>
    /\ call' = [Call("remove_file_channel") EXCEPT
                 !.present = (filechannel # None)]
    /\ wrote' = <<>>
    /\ UNCHANGED <<streamchannel, colouredstream, indentlevel, loggerLevel,
                   disable>>

RemoveFileChannel ==
    /\ IF RemoveFileGuard
       THEN /\ handlers' = RemoveHandler(handlers, filechannel)
            /\ filechannel' = None
            /\ heap' = Collect(heap, handlers', {streamchannel})
       ELSE UNCHANGED <<handlers, filechannel, heap>>
    /\ call' = [Call("remove_file_channel") EXCEPT
                 !.present = (filechannel # None)]
    /\ wrote' = <<>>
    /\ UNCHANGED <<streamchannel, colouredstream, indentlevel, loggerLevel,
                   disable>>

RemoveStreamGuard == streamchannel # None

(* variant: the body of remove_file_channel pasted in, with only the slot
   assignment renamed *)
RemoveStreamChannelPasted ==
    /\ IF filechannel # None
       THEN /\ handlers' = RemoveHandler(handlers, filechannel)
            /\ streamchannel' = None
            /\ heap' = Collect(heap, handlers', {filechannel})
       ELSE UNCHANGED <<handlers, streamchannel, heap>>
    /\ call' = [Call("remove_stream_channel") EXCEPT
                 !.present = (streamchannel # None)]
    /\ wrote' = <<>>
    /\ UNCHANGED <<filechannel, colouredstream, indentlevel, loggerLevel,
                   disable>>

RemoveStreamChannel ==
    /\ IF RemoveStreamGuard
       THEN /\ handlers' = RemoveHandler(handlers, streamchannel)
            /\ streamchannel' = None
            /\ heap' = Collect(heap, handlers', {filechannel})
       ELSE UNCHANGED <<handlers, streamchannel, heap>>
    /\ call' = [Call("remove_stream_channel") EXCEPT
                 !.present = (streamchannel # None)]
    /\ wrote' = <<>>
    /\ UNCHANGED <<filechannel, colouredstream, indentlevel, loggerLevel,
                   disable>>

----------------------------------------------------------------------------
(* mute, unmute, colour_stream *)

Mute(lvl) ==
    /\ disable' = lvl
    /\ call' = [Call("mute") EXCEPT !.lvl = Lvl(lvl)]
    /\ wrote' = <<>>
    /\ UNCHANGED <<streamchannel, filechannel, colouredstream, indentlevel,
                   handlers, heap, loggerLevel>>

(* variant: unmute switches off DEBUG and below *)
UnmuteLevelDebug == DEBUG

(* the level unmute passes to logging.disable *)
UnmuteLevel == NOTSET

Unmute ==
    /\ disable' = UnmuteLevel
    /\ call' = [Call("unmute") EXCEPT !.present = (disable # NOTSET)]
    /\ wrote' = <<>>
    /\ UNCHANGED <<streamchannel, filechannel, colouredstream, indentlevel,
                   handlers, heap, loggerLevel>>

ColourStream(colour) ==
    /\ colouredstream' = colour
    /\ call' = [Call("colour_stream") EXCEPT !.colour = colour]
    /\ wrote' = <<>>
    /\ UNCHANGED <<streamchannel, filechannel, indentlevel, handlers, heap,
                   loggerLevel, disable>>

----------------------------------------------------------------------------
(* set_indent *)

(* variant: every string is accepted, unknown ones are ignored *)
IndentRaisesNonStr(d) == d.t \notin {"int", "str", "none"}

(* the directives set_indent rejects with an exception *)
IndentRaises(d) ==
    \/ d.t = "str" /\ d.s \notin {"+", "-"}
    \/ d.t \notin {"int", "str", "none"}

(* variant: "-" stops at zero *)
SetIndentValueFloor(k, d) ==
    CASE d.t = "int" -> d.i
      [] d.t = "str" /\ d.s = "+" -> k + 1
      [] d.t = "str" /\ d.s = "-" -> IF k > 0 THEN k - 1 ELSE 0
      [] OTHER -> k

(* the indent level set_indent leaves behind, from level k *)
SetIndentValue(k, d) ==
    CASE d.t = "int" -> d.i
      [] d.t = "str" /\ d.s = "+" -> k + 1
      [] d.t = "str" /\ d.s = "-" -> k - 1
      [] OTHER -> k

InBounds(n) == n \in MinIndent..MaxIndent

SetIndent(d) ==
    /\ InBounds(SetIndentValue(indentlevel, d))
    /\ IF IndentRaises(d)
       THEN /\ call' = [Call("set_indent") EXCEPT !.indent = d,
                          !.raised = TRUE]
            /\ UNCHANGED indentlevel
       ELSE /\ call' = [Call("set_indent") EXCEPT !.indent = d]
            /\ indentlevel' = SetIndentValue(indentlevel, d)
    /\ wrote' = <<>>
    /\ UNCHANGED <<streamchannel, filechannel, colouredstream, handlers, heap,
                   loggerLevel, disable>>

----------------------------------------------------------------------------
(* debug, info, warning, error, critical *)

(* variant: the record is handled before set_indent runs *)
EmitIndentStale(k, d) == k

(* the indent level the filters read while the record is handled:
   set_indent has run before the logger is called *)
EmitIndentSeen(k, d) == SetIndentValue(k, d)

(* variant: a call made while a mute is in effect returns before
   set_indent *)
EmitIndentKeptUnlessMuted(k, d) ==
    IF disable # NOTSET THEN k ELSE SetIndentValue(k, d)

(* the indent level an emit call leaves behind: set_indent runs first and
   unconditionally *)
EmitIndentKept(k, d) == SetIndentValue(k, d)

Emit(sev, message, d) ==
    /\ InBounds(SetIndentValue(indentlevel, d))
    /\ IF IndentRaises(d)
       THEN /\ call' = [Call(EmitOp(sev)) EXCEPT !.sev = sev, !.msg = message,
                          !.indent = d, !.raised = TRUE]
            /\ wrote' = <<>>
            /\ UNCHANGED indentlevel
       ELSE /\ call' = [Call(EmitOp(sev)) EXCEPT !.sev = sev, !.msg = message,
                          !.indent = d]
            /\ indentlevel' = EmitIndentKept(indentlevel, d)
            /\ wrote' = LoggerLog(sev, message,
                                  EmitIndentSeen(indentlevel, d))
    /\ UNCHANGED <<streamchannel, filechannel, colouredstream, handlers, heap,
                   loggerLevel, disable>>

----------------------------------------------------------------------------
(* The state after the module is imported: to_stream() has run once *)

Init ==
    /\ streamchannel = 1
    /\ filechannel = None
    /\ colouredstream = TRUE
    /\ indentlevel = 0
    /\ handlers = <<1>>
    /\ heap = [i \in Ids |->
                 IF i = 1
                 THEN [NewStreamHandler EXCEPT
                         !.level = streamchannel_defaultlvl]
                 ELSE FreeObj]
    /\ loggerLevel = ToStreamLoggerLevel
    /\ disable = NOTSET
    /\ call = Call("import")
    /\ wrote = <<>>

Next ==
    \/ \E lvl \in LvlArgs, colour \in BOOLEAN : ToStream(lvl, colour)
    \/ \E logpath \in Paths, lvl \in LvlArgs : ToFile(logpath, lvl)
    \/ RemoveFileChannel
    \/ RemoveStreamChannel
    \/ \E lvl \in MuteArgs : Mute(lvl)
    \/ Unmute
    \/ \E colour \in BOOLEAN : ColourStream(colour)
    \/ \E d \in Directives : SetIndent(d)
    \/ \E sev \in Severities, message \in Messages, d \in Directives :
          Emit(sev, message, d)

Spec == Init /\ [][Next]_vars

----------------------------------------------------------------------------
(* Properties *)

AttachedOfKind(kind) ==
    {i \in 1..Len(handlers) : heap[handlers[i]].kind = kind}

LinesOfKind(kind) == {i \in 1..Len(wrote) : wrote[i].kind = kind}

LinesOf(h) == {i \in 1..Len(wrote) : wrote[i].h = h}

Emitted == call.op \in EmitOps /\ ~call.raised

StreamPresent == streamchannel # None
FilePresent == filechannel # None

(* C1: the logger never has more than one stream handler or more than one
   file handler attached, and a registry slot is occupied exactly when the
   handler it names is attached to the logger; enabling a channel that is
   already there attaches nothing *)
C1_OneHandlerPerKind ==
    /\ Cardinality(AttachedOfKind("stream")) <= 1
    /\ Cardinality(AttachedOfKind("file")) <= 1
    /\ Cardinality(Range(handlers)) = Len(handlers)
    /\ IF streamchannel # None
       THEN /\ streamchannel \in Range(handlers)
            /\ heap[streamchannel].kind = "stream"
       ELSE AttachedOfKind("stream") = {}
    /\ IF filechannel # None
       THEN /\ filechannel \in Range(handlers)
            /\ heap[filechannel].kind = "file"
       ELSE AttachedOfKind("file") = {}

(* to_stream was called while the stream channel existed, with the file
   channel attached as well *)
C1_Witness ==
    /\ call.op = "to_stream"
    /\ call.present
    /\ filechannel # None
    /\ Len(handlers) = 2

(* C2 as claimed: under mute(L) an emit below L writes nothing and an emit at
   or above L is written by every attached channel whose level admits it *)
C2_MuteLetsThresholdThrough ==
    (Emitted /\ disable # NOTSET) =>
        /\ call.sev < disable => wrote = <<>>
        /\ call.sev >= disable =>
              \A i \in 1..Len(handlers) :
                  call.sev >= heap[handlers[i]].level =>
                      LinesOf(handlers[i]) # {}

(* C3 as claimed: every line a channel writes carries the message prefixed
   with exactly max(n, 0) indent units (colour codes aside) *)
C3_IndentPrefixExact ==
    Emitted =>
        \A i \in 1..Len(wrote) :
            wrote[i].kind \in {"stream", "file"} =>
                StripEscapes(wrote[i].text) =
                    Repeat(indentunit, Max(indentlevel, 0)) \o call.msg

(* C4: after to_stream or to_file returns, the channel's level is the level
   passed, or INFO when none was passed, whether or not the channel existed *)
C4_LevelAfterEnable ==
    /\ call.op = "to_stream" =>
          /\ streamchannel # None
          /\ heap[streamchannel].level =
                IF call.lvl.none THEN INFO ELSE call.lvl.v
    /\ (call.op = "to_file" /\ ~call.raised) =>
          /\ filechannel # None
          /\ heap[filechannel].level =
                IF call.lvl.none THEN INFO ELSE call.lvl.v

(* to_stream() without a level on an existing stream channel *)
C4_Witness ==
    /\ call.op = "to_stream"
    /\ call.present
    /\ call.lvl.none
    /\ heap[streamchannel].level = INFO

(* C5: after import the stream channel is present at INFO and the file
   channel absent; a channel becomes present only by its enable call, stays
   present over a repeated enable call, becomes absent only by its remove
   call, and no other call changes presence *)
C5_PresenceTransitions ==
    /\ StreamPresent /\ heap[streamchannel].level = INFO /\ ~FilePresent
    /\ [][/\ (StreamPresent' # StreamPresent) =>
                \/ call'.op = "to_stream" /\ ~StreamPresent
                \/ call'.op = "remove_stream_channel" /\ StreamPresent
          /\ (FilePresent' # FilePresent) =>
                \/ call'.op = "to_file" /\ ~FilePresent
                \/ call'.op = "remove_file_channel" /\ FilePresent
          /\ call'.op = "to_stream" => StreamPresent'
          /\ (call'.op = "to_file" /\ ~call'.raised) => FilePresent'
          /\ call'.op = "remove_stream_channel" => ~StreamPresent'
          /\ call'.op = "remove_file_channel" => ~FilePresent'
         ]_vars

(* remove_file_channel has removed a file channel that was present *)
C5_Witness ==
    /\ call.op = "remove_file_channel"
    /\ call.present
    /\ ~FilePresent

(* the stream handler is not the first object made, so a file handler was
   made before it and, the file slot being empty, has since been removed *)
FileChannelWasRemoved ==
    /\ ~FilePresent
    /\ StreamPresent
    /\ streamchannel > 1

(* C6: with the file channel present and nothing muted, an emit at or above
   the file channel's level writes exactly one line to the channel's file;
   while the file channel is absent (so after remove_file_channel and until
   the next to_file) no emit writes a line to any file *)
C6_FileLinePerEmit ==
    Emitted =>
        /\ (FilePresent /\ disable = NOTSET
              /\ call.sev >= heap[filechannel].level) =>
              /\ Cardinality(LinesOfKind("file")) = 1
              /\ \A i \in LinesOfKind("file") :
                    /\ wrote[i].h = filechannel
                    /\ wrote[i].path = heap[filechannel].path
        /\ ~FilePresent => LinesOfKind("file") = {}

(* an error record is emitted after the file channel was removed: the stream
   channel writes it, no file does *)
C6_Witness ==
    /\ call.op = "error"
    /\ ~call.raised
    /\ FileChannelWasRemoved
    /\ disable = NOTSET
    /\ LinesOfKind("stream") # {}
    /\ LinesOfKind("file") = {}

(* C7: with nothing muted, an attached channel writes an emitted record if
   and only if the record's severity is at or above that channel's own
   level, whatever the level of the other channel; only attached channels
   write *)
C7_ChannelsDecideAlone ==
    (Emitted /\ disable = NOTSET) =>
        /\ \A i \in 1..Len(handlers) :
              (LinesOf(handlers[i]) # {}) <=>
                  (call.sev >= heap[handlers[i]].level)
        /\ \A i \in 1..Len(wrote) :
              wrote[i].kind \in {"stream", "file"} =>
                  wrote[i].h \in {streamchannel, filechannel} \ {None}

(* both channels attached, the record admitted by the stream channel and
   withheld from the file channel *)
C7_Witness ==
    /\ Emitted
    /\ disable = NOTSET
    /\ StreamPresent /\ FilePresent
    /\ heap[streamchannel].level <= call.sev
    /\ call.sev < heap[filechannel].level
    /\ LinesOf(streamchannel) # {}
    /\ LinesOf(filechannel) = {}

(* C8: set_indent with an integer sets the indent level to it, with "+" adds
   one, with "-" takes one off (also below zero), with None changes nothing *)
C8_SetIndentEffect ==
    [][(call'.op = "set_indent" /\ ~call'.raised) =>
          /\ call'.indent.t = "int" => indentlevel' = call'.indent.i
          /\ call'.indent = StrDir("+") => indentlevel' = indentlevel + 1
          /\ call'.indent = StrDir("-") => indentlevel' = indentlevel - 1
          /\ call'.indent = NoneDir => indentlevel' = indentlevel
      ]_vars

(* set_indent("-") has taken the level below zero *)
C8_Witness ==
    /\ call.op = "set_indent"
    /\ call.indent = StrDir("-")
    /\ ~call.raised
    /\ indentlevel = 0 - 1

InvalidDirectives == {StrDir("++"), OtherDir}

(* C9: a directive that is no integer, "+", "-" or None makes set_indent and
   the five emit functions raise; the indent level stays as it was and the
   emit functions write no line *)
C9_InvalidDirectiveRaises ==
    [][(call'.op \in EmitOps \cup {"set_indent"}
          /\ call'.indent \in InvalidDirectives) =>
          /\ call'.raised
          /\ indentlevel' = indentlevel
          /\ wrote' = <<>>
      ]_vars

(* info was called with an unknown string while the stream channel would
   have written an INFO record *)
C9_Witness ==
    /\ call.op = "info"
    /\ call.indent = StrDir("++")
    /\ call.raised
    /\ wrote = <<>>
    /\ StreamPresent
    /\ heap[streamchannel].level <= INFO
    /\ disable = NOTSET

(* the indent level a directive asks for, from level k *)
Directed(k, d) ==
    IF d.t = "int" THEN d.i
    ELSE IF d = StrDir("+") THEN k + 1
    ELSE IF d = StrDir("-") THEN k - 1
    ELSE k

(* C10: an emit call applies its directive before the record is written: the
   level after the call is the directed one, the first line written for the
   call is indented at that level, and a call without a directive writes at
   the level the earlier calls left *)
C10_DirectiveBeforeFormat ==
    [][(call'.op \in EmitOps /\ ~call'.raised) =>
          /\ indentlevel' = Directed(indentlevel, call'.indent)
          /\ (wrote' # <<>> /\ wrote'[1].kind \in {"stream", "file"}) =>
                StripEscapes(wrote'[1].text) =
                    Repeat(indentunit,
                           Max(Directed(indentlevel, call'.indent), 0))
                      \o call'.msg
      ]_vars

(* info(m, indent="+") has written its line at the raised level *)
C10_Witness ==
    /\ call.op = "info"
    /\ call.indent = StrDir("+")
    /\ ~call.raised
    /\ indentlevel = 1
    /\ wrote # <<>>
    /\ wrote[1].text = indentunit \o call.msg

(* C11: a remove call for a channel that is absent raises nothing and
   changes no part of the state: not the logger's handlers, not the other
   channel, not the colour mode, the indent level or the mute threshold *)
C11_RemoveAbsentIsNoop ==
    [][(call'.op \in {"remove_stream_channel", "remove_file_channel"}
          /\ ~call'.present) =>
          /\ ~call'.raised
          /\ UNCHANGED <<streamchannel, filechannel, colouredstream,
                         indentlevel, handlers, heap, loggerLevel, disable>>
      ]_vars

(* remove_stream_channel was called with the stream channel absent and the
   file channel attached *)
C11_Witness ==
    /\ call.op = "remove_stream_channel"
    /\ ~call.present
    /\ ~StreamPresent
    /\ FilePresent
    /\ handlers = <<filechannel>>

(* C12: to_file for a path that cannot be opened, called with no file
   channel, raises and leaves everything as it was, the file slot empty and
   no file handler on the logger; from a state with no file channel, to_file
   for a writable path makes the channel and attaches it *)
C12_FailedOpenLeavesRegistry ==
    [][/\ (call'.op = "to_file" /\ ~FilePresent
             /\ call'.path \in BadPaths) =>
             /\ call'.raised
             /\ UNCHANGED <<streamchannel, filechannel, colouredstream,
                            indentlevel, handlers, heap, loggerLevel,
                            disable>>
             /\ ~FilePresent'
             /\ \A i \in 1..Len(handlers') :
                   heap'[handlers'[i]].kind # "file"
       /\ (call'.op = "to_file" /\ ~FilePresent
             /\ call'.path \in GoodPaths) =>
             /\ ~call'.raised
             /\ FilePresent'
             /\ filechannel' \in Range(handlers')
             /\ heap'[filechannel'].kind = "file"
             /\ heap'[filechannel'].path = call'.path
      ]_vars

(* to_file has just failed to open its path; the stream channel is the only
   handler on the logger *)
C12_Witness ==
    /\ call.op = "to_file"
    /\ call.path \in BadPaths
    /\ call.raised
    /\ ~FilePresent
    /\ StreamPresent
    /\ handlers = <<streamchannel>>

(* the paths of the files held open by a file handler *)
OpenPaths == {heap[i].path : i \in {j \in Ids : heap[j].kind = "file"}}

(* C13: to_file called while the file channel is present keeps the handler
   and its path, opens nothing (so it cannot fail on the new path) and only
   sets the level; to_file called while the channel is absent binds the path
   of the call; records are written to the path of the handler *)
C13_PathFixedAtCreation ==
    [][/\ (call'.op = "to_file" /\ FilePresent) =>
             /\ ~call'.raised
             /\ filechannel' = filechannel
             /\ handlers' = handlers
             /\ heap'[filechannel].path = heap[filechannel].path
             /\ OpenPaths' = OpenPaths
             /\ heap'[filechannel].level =
                   IF call'.lvl.none THEN INFO ELSE call'.lvl.v
       /\ (call'.op = "to_file" /\ ~FilePresent /\ ~call'.raised) =>
             /\ heap'[filechannel'].path = call'.path
             /\ OpenPaths' = {call'.path}
       /\ (call'.op \in EmitOps) =>
             \A i \in 1..Len(wrote') :
                 wrote'[i].kind = "file" =>
                     /\ FilePresent
                     /\ wrote'[i].path = heap[filechannel].path
      ]_vars

(* to_file was called for another path while the channel was present: the
   channel still has the path it was made with *)
C13_Witness ==
    /\ call.op = "to_file"
    /\ call.present
    /\ FilePresent
    /\ call.path \in GoodPaths
    /\ heap[filechannel].path \in GoodPaths
    /\ call.path # heap[filechannel].path
    /\ OpenPaths = {heap[filechannel].path}

(* C14: every to_stream call leaves the colour mode equal to its colour
   argument, also when the stream channel exists already; colour_stream(c)
   leaves the colour mode equal to c, with or without a stream channel, and
   changes nothing else *)
C14_ColourModeFollowsCall ==
    [][/\ call'.op = "to_stream" => colouredstream' = call'.colour
       /\ call'.op = "colour_stream" =>
             /\ colouredstream' = call'.colour
             /\ UNCHANGED <<streamchannel, filechannel, indentlevel,
                            handlers, heap, loggerLevel, disable>>
      ]_vars

(* to_stream on an existing stream channel has switched colour off *)
C14_Witness ==
    /\ call.op = "to_stream"
    /\ call.present
    /\ ~call.colour
    /\ ~colouredstream

(* the lines of an output that went to a file *)
FileLines(out) == SelectSeq(out, LAMBDA line : line.kind = "file")

HasEscape(text) == \E i \in 1..Len(text) : IsEscape(text[i])

(* the stream channel handles a record of severity sev before the file
   channel does *)
StreamHandlesFirst(sev) ==
    /\ StreamPresent
    /\ FilePresent
    /\ sev >= heap[streamchannel].level
    /\ \E i, j \in 1..Len(handlers) :
          i < j /\ handlers[i] = streamchannel /\ handlers[j] = filechannel

(* C15: what the file channel writes does not depend on the colour mode:
   the file lines of every emit call are given by an expression in which
   the colour mode does not occur (the file channel's presence, level and
   path, the mute threshold, the severity, the message, the indent level and
   whether the stream channel handled the record first), so two runs that
   differ only in colour arguments write the same file lines; and no file
   line holds a colour code, in its label or in its text, for CRITICAL
   records and with the stream channel first included *)
C15_FileIgnoresColour ==
    Emitted =>
        /\ FileLines(wrote) =
              IF FilePresent /\ disable < call.sev
                   /\ call.sev >= heap[filechannel].level
              THEN <<[h |-> filechannel, kind |-> "file",
                      path |-> heap[filechannel].path,
                      label |-> Centre8(LevelName(call.sev)),
                      text |-> Repeat(indentunit,
                                      (IF StreamHandlesFirst(call.sev)
                                       THEN 2 ELSE 1)
                                        * Max(indentlevel, 0))
                                 \o call.msg]>>
              ELSE <<>>
        /\ \A i \in 1..Len(wrote) :
              wrote[i].kind = "file" =>
                  /\ ~HasEscape(wrote[i].label)
                  /\ ~HasEscape(wrote[i].text)

(* a CRITICAL record written with colour on, by the stream channel first and
   the file channel second: the stream text is wrapped in colour codes, the
   file text is not *)
C15_Witness ==
    /\ call.op = "critical"
    /\ colouredstream
    /\ Len(wrote) = 2
    /\ wrote[1].kind = "stream"
    /\ wrote[2].kind = "file"
    /\ HasEscape(wrote[1].text)
    /\ ~HasEscape(wrote[2].text)

(* C16: mute and unmute change nothing but the mute threshold (no channel's
   presence or level, not the indent level, not the colour mode); after
   unmute no threshold is left, whatever was muted before, and a record of
   any severity is then written by an attached channel exactly when the
   channel's own level admits it *)
C16_UnmuteClearsSuppression ==
    /\ [](call.op = "unmute" =>
             /\ disable = NOTSET
             /\ \A sev \in Severities, message \in Messages,
                   i \in 1..Len(handlers) :
                    (\E k \in 1..Len(LoggerLog(sev, message, indentlevel)) :
                        LoggerLog(sev, message, indentlevel)[k].h
                            = handlers[i])
                    <=> (sev >= heap[handlers[i]].level))
    /\ [][call'.op \in {"mute", "unmute"} =>
             UNCHANGED <<streamchannel, filechannel, colouredstream,
                         indentlevel, handlers, heap, loggerLevel>>
         ]_vars

(* unmute was called while a mute was in effect, with both channels
   attached *)
C16_Witness ==
    /\ call.op = "unmute"
    /\ call.present
    /\ disable = NOTSET
    /\ StreamPresent
    /\ FilePresent

(* label is name with l blanks before it and r after, 8 wide in all, l and r
   differing by one at most *)
IsCentredIn8(label, name) ==
    \E l \in 0..8 :
        LET r == 8 - Len(name) - l
        IN /\ r >= 0
           /\ r - l \in {0 - 1, 0, 1}
           /\ label = Repeat(<<" ">>, l) \o name \o Repeat(<<" ">>, r)

(* C17: the label of every line the stream channel writes is 8 characters
   wide once the colour codes are taken out, for each severity and in either
   colour mode; with colour off the label is the severity name centred in 8
   characters and holds no colour code *)
C17_LabelWidth ==
    Emitted =>
        \A i \in 1..Len(wrote) :
            wrote[i].kind = "stream" =>
                /\ Len(StripEscapes(wrote[i].label)) = 8
                /\ ~colouredstream =>
                      /\ ~HasEscape(wrote[i].label)
                      /\ IsCentredIn8(wrote[i].label, LevelName(call.sev))

(* a WARNING record written by the stream channel with colour on: the label
   holds colour codes and is 8 wide without them *)
C17_Witness ==
    /\ call.op = "warning"
    /\ colouredstream
    /\ wrote # <<>>
    /\ wrote[1].kind = "stream"
    /\ HasEscape(wrote[1].label)
    /\ Len(wrote[1].label) = 10
    /\ Len(StripEscapes(wrote[1].label)) = 8

(* the file handlers that exist, each holding the file it opened *)
OpenHandles == {i \in Ids : heap[i].kind = "file"}

(* C18: at most one file opened by to_file is open at any time; the open
   file is the one of the handler in the file slot, and once
   remove_file_channel has returned, or whenever the slot is empty, none is
   open *)
C18_OneOpenFile ==
    /\ Cardinality(OpenHandles) <= 1
    /\ FilePresent => OpenHandles = {filechannel}
    /\ ~FilePresent => OpenHandles = {}
    /\ call.op = "remove_file_channel" => OpenHandles = {}

(* to_file has opened a file for the second time at least: the stream
   handler is the second object made, so a file handler was made before it,
   and the file handler now stands behind it on the logger, so it was made
   again after the first one was removed *)
C18_Witness ==
    /\ call.op = "to_file"
    /\ ~call.present
    /\ ~call.raised
    /\ streamchannel = 2
    /\ filechannel = 1
    /\ handlers = <<2, 1>>
    /\ OpenHandles = {1}

(* C19: an emit call with a valid directive whose record no channel writes
   (muted, below the level of every channel, or no channel attached) still
   leaves the indent level the directive asks for *)
C19_IndentChangesWhenSilent ==
    [][(call'.op \in EmitOps /\ ~call'.raised
          /\ \A i \in 1..Len(wrote') :
                wrote'[i].kind \notin {"stream", "file"}) =>
          indentlevel' = Directed(indentlevel, call'.indent)
      ]_vars

(* info(m, indent="+") was called under a mute with a stream channel that
   admits INFO: nothing was written and the level went from 0 to 1 *)
C19_Witness ==
    /\ call.op = "info"
    /\ call.indent = StrDir("+")
    /\ ~call.raised
    /\ disable # NOTSET
    /\ StreamPresent
    /\ heap[streamchannel].level <= INFO
    /\ wrote = <<>>
    /\ indentlevel = 1

(* what there is to know of the stream channel: present or not, its level,
   and whether its handler is on the logger *)
StreamSide ==
    IF StreamPresent
    THEN <<TRUE, heap[streamchannel].level, streamchannel \in Range(handlers)>>
    ELSE <<FALSE, NOTSET, FALSE>>

(* the same of the file channel, with its path *)
FileSide ==
    IF FilePresent
    THEN <<TRUE, heap[filechannel].level, heap[filechannel].path,
           filechannel \in Range(handlers)>>
    ELSE <<FALSE, NOTSET, NoPath, FALSE>>

(* C20: to_stream and remove_stream_channel leave the file channel as it is
   (presence, level, path, attachment); to_file and remove_file_channel
   leave the stream channel as it is and the colour mode too; none of the
   four changes the indent level or the mute threshold *)
C20_ChannelKindsIndependent ==
    [][/\ call'.op \in {"to_stream", "remove_stream_channel"} =>
             FileSide' = FileSide
       /\ call'.op \in {"to_file", "remove_file_channel"} =>
             /\ StreamSide' = StreamSide
             /\ colouredstream' = colouredstream
       /\ call'.op \in {"to_stream", "remove_stream_channel",
                        "to_file", "remove_file_channel"} =>
             UNCHANGED <<indentlevel, disable>>
      ]_vars

(* remove_file_channel has removed the file channel and left a stream
   channel at a level of its own, colour off, an indent and a mute *)
C20_Witness ==
    /\ call.op = "remove_file_channel"
    /\ call.present
    /\ StreamPresent
    /\ heap[streamchannel].level = ERROR
    /\ handlers = <<streamchannel>>
    /\ ~colouredstream
    /\ indentlevel = 1
    /\ disable = WARNING

====
